---- MODULE Spec2Model ----
(***************************************************************************)
(* ALEX (gjeunen/ALEX): exploring BLAST output to find the Most Recent     *)
(* Common Ancestor.  Model of src/function/alex_functions.py.              *)
(*                                                                         *)
(* Python strings that the code splits or rewrites (query ids, species     *)
(* names) are sequences of tokens: a token is a delimiter character        *)
(* (";", " ", "_", ">") or a run of other characters.  Other strings       *)
(* (taxon ids, rank names) are TLA+ strings.  An insertion-ordered Python  *)
(* dict whose iteration order is observed is a record [keys, val].         *)
(***************************************************************************)
EXTENDS Integers, Sequences, FiniteSets, TLC

VARIABLES
    pc,                          \* position of the driver in the pipeline
    strategy,                    \* "tree" (names/nodes dump) or "table" (crabs)
    nread,                       \* hit-file lines consumed so far
    line,                        \* the hit-file line read last
    infile,                      \* hit records read so far from the open file
    seen,                        \* query ids of the hit file, first-seen order
    blast_dict,                  \* seq_id -> [pident, qcov], insertion ordered
    species_dict,                \* seq_id -> list of tax_id, insertion ordered
    uniq_species_list,
    zotu_list,
    names_file,                  \* the lines of names.dmp
    nodes_file,                  \* the lines of nodes.dmp
    crabs_file,                  \* the lines of the crabs reference table
    id_key_dict,                 \* names.dmp: tax id -> scientific name
    taxon_key_dict,              \* names.dmp: scientific name -> tax id
    id_key_rank_up_values_dict,  \* nodes.dmp: tax id -> <<rank, parent id>>
    species_taxid_dict,
    species_lineages_dict,       \* tree: raw walked lineage; table: rank dict
    filter_species_lineage_dict, \* tax id -> list object held by the dict
    idx,                         \* clusters of species_dict already merged
    mrca_dict,
    contributing_species,
    report,                      \* data rows written so far
    walk_item,                   \* generate_lineage: item of the running walk
    walked                       \* generate_lineage: tax ids already walked

vars == <<pc, strategy, nread, line, infile, seen, blast_dict, species_dict,
          uniq_species_list, zotu_list, names_file, nodes_file, crabs_file,
          id_key_dict, taxon_key_dict, id_key_rank_up_values_dict,
          species_taxid_dict, species_lineages_dict,
          filter_species_lineage_dict, idx, mrca_dict, contributing_species,
          report, walk_item, walked>>

-----------------------------------------------------------------------------
(* Bounds of the model *)

MaxHits == 3
MaxZotu == 2

-----------------------------------------------------------------------------
(* Strings and containers *)

\* the literal 'NA' as a tokenised string (species name, lineage entry)
NA == <<"NA">>

\* the literal 'N/A' tax_id of a hit line
NullTaxon == <<"N/A">>

\* blast_dict[item]['pident'] = 'NA' / ['qcov'] = 'NA'
NAValue == [known |-> FALSE, v |-> 0]

Num(n) == [known |-> TRUE, v |-> n]

Range(s) == {s[i] : i \in 1..Len(s)}

Min(S) == CHOOSE x \in S : \A y \in S : x <= y

EmptyFcn == [x \in {} |-> 0]

\* an empty insertion-ordered dict
EmptyDict == [keys |-> <<>>, val |-> EmptyFcn]

Has(d, k) == k \in DOMAIN d.val

\* d[k] = v: a new key goes last, an existing key keeps its place
Put(d, k, v) ==
    IF Has(d, k)
    THEN [d EXCEPT !.val[k] = v]
    ELSE [keys |-> Append(d.keys, k), val |-> (k :> v) @@ d.val]

\* lst.append(x) if x not in lst
AppendIfAbsent(lst, x) == IF x \in Range(lst) THEN lst ELSE Append(lst, x)

\* s.split(';')[0]
SplitSemi(s) ==
    LET at == {i \in 1..Len(s) : s[i] = ";"}
    IN  IF at = {} THEN s ELSE SubSeq(s, 1, Min(at) - 1)

\* s.replace(' ', '_')
ReplaceSpace(s) == [i \in 1..Len(s) |-> IF s[i] = " " THEN "_" ELSE s[i]]

\* s.lstrip('>')
RECURSIVE LStripGt(_)
LStripGt(s) ==
    IF s # <<>> /\ Head(s) = ">" THEN LStripGt(Tail(s)) ELSE s

-----------------------------------------------------------------------------
(* Inputs of the hit parser and of the cluster index *)

\* field 0 of a hit line: the query id, with or without a ';size' suffix
QueryFields == {<<"q1", ";", "size=2">>, <<"q2">>}

\* field 2 of a hit line
HitTaxa == {<<"Aus", " ", "a">>, <<"Aus", "_", "b">>, NullTaxon}

\* field 5 (pident, in percent) and field 7 (qcov) of a hit line
Pidents == {97, 98}
Qcovs == {99, 100}

HitLines == [f0 : QueryFields, f2 : HitTaxa, f5 : Pidents, f7 : Qcovs]

\* no line read yet, or the file is closed
NoLine == [f0 |-> <<>>, f2 |-> <<>>, f5 |-> 0, f7 |-> 0]

\* column 0 of a table row, and the records of a sequence list
ClusterIds == {<<"q1">>, <<"q3">>}

\* the sequences without repetition of at most n elements of S
RECURSIVE SeqsUpTo(_, _)
SeqsUpTo(S, n) ==
    IF n = 0 THEN {<<>>}
    ELSE LET shorter == SeqsUpTo(S, n - 1)
         IN  shorter \cup
             {Append(p[1], p[2]) :
                 p \in {q \in shorter \X S : q[2] \notin Range(q[1])}}

-----------------------------------------------------------------------------
(* blast_to_memory *)

IsTieIdentityOnly(best, cands, tax_id, pident, qcov) ==
    /\ pident = best.pident.v
    /\ tax_id \notin Range(cands)
    /\ tax_id # NullTaxon

IsTieListedAgain(best, cands, tax_id, pident, qcov) ==
    /\ pident = best.pident.v
    /\ qcov = best.qcov.v
    /\ tax_id # NullTaxon

\* line 105: a co-best hit of a taxon not yet listed
IsTie(best, cands, tax_id, pident, qcov) ==
    /\ pident = best.pident.v
    /\ qcov = best.qcov.v
    /\ tax_id \notin Range(cands)
    /\ tax_id # NullTaxon

ImprovesBothOnly(best, pident, qcov) ==
    pident > best.pident.v /\ qcov > best.qcov.v

\* lines 109, 115, 121: the three replace branches
Improves(best, pident, qcov) ==
    \/ pident > best.pident.v /\ qcov = best.qcov.v
    \/ pident = best.pident.v /\ qcov > best.qcov.v
    \/ pident > best.pident.v /\ qcov > best.qcov.v

\* the body of the loop over the lines of the hit file, lines 95-126
BlastLine(bd, sd, uniq, l) ==
    LET seq_id == SplitSemi(l.f0)
        tax_id == l.f2
        pident == l.f5
        qcov == l.f7
        fresh == [pident |-> Num(pident), qcov |-> Num(qcov)]
        same == [bd |-> bd, sd |-> sd, uniq |-> uniq]
    IN  IF ~Has(bd, seq_id)
        THEN [bd |-> Put(bd, seq_id, fresh),
              sd |-> Put(sd, seq_id, <<tax_id>>),
              uniq |-> AppendIfAbsent(uniq, tax_id)]
        ELSE IF IsTie(bd.val[seq_id], sd.val[seq_id], tax_id, pident, qcov)
        THEN [bd |-> bd,
              sd |-> Put(sd, seq_id, Append(sd.val[seq_id], tax_id)),
              uniq |-> AppendIfAbsent(uniq, tax_id)]
        ELSE IF Improves(bd.val[seq_id], pident, qcov)
        THEN [bd |-> Put(bd, seq_id, fresh),
              sd |-> Put(sd, seq_id, <<tax_id>>),
              uniq |-> AppendIfAbsent(uniq, tax_id)]
        ELSE same

rest == <<strategy, zotu_list, names_file, nodes_file, crabs_file, id_key_dict, taxon_key_dict,
          id_key_rank_up_values_dict, species_taxid_dict,
          species_lineages_dict, filter_species_lineage_dict, idx,
          mrca_dict, contributing_species, report, walk_item, walked>>

\* one iteration of the loop of blast_to_memory over a hit record
ReadHit ==
    /\ pc = "blast"
    /\ nread < MaxHits
    /\ \E l \in HitLines :
          LET r == BlastLine(blast_dict, species_dict, uniq_species_list, l)
          IN  /\ line' = l
              /\ infile' = Append(infile, l)
              /\ seen' = AppendIfAbsent(seen, SplitSemi(l.f0))
              /\ blast_dict' = r.bd
              /\ species_dict' = r.sd
              /\ uniq_species_list' = r.uniq
    /\ nread' = nread + 1
    /\ UNCHANGED <<pc, rest>>

\* lines 93-94: the line 'not assigned' is skipped
ReadNotAssigned ==
    /\ pc = "blast"
    /\ nread < MaxHits
    /\ nread' = nread + 1
    /\ line' = NoLine
    /\ UNCHANGED <<pc, infile, seen, blast_dict, species_dict,
                   uniq_species_list, rest>>

\* the end of the hit file: blast_to_memory returns
EndBlast ==
    /\ pc = "blast"
    /\ pc' = "list"
    /\ nread' = 0
    /\ line' = NoLine
    /\ infile' = <<>>
    /\ UNCHANGED <<seen, blast_dict, species_dict, uniq_species_list, rest>>

-----------------------------------------------------------------------------
(* table_to_memory, fasta_to_memory, fill_out_blast_dict *)

\* an OTU/ASV table, column 0 of each line: the header, then the cluster ids
TableFile(ids) == <<<<"#OTU ID">>>> \o ids

\* lines 152-159: every line but the first gives a sequence id
TableIds(file) == [i \in 1..(Len(file) - 1) |-> file[i + 1]]

\* a fasta file: per cluster a '>' header with a ';size' suffix and a sequence
RECURSIVE FastaFile(_)
FastaFile(ids) ==
    IF ids = <<>> THEN <<>>
    ELSE <<<<">">> \o Head(ids) \o <<";", "size=2">>, <<"ACGT">>>>
         \o FastaFile(Tail(ids))

\* lines 138-141: line.split(';')[0].lstrip('>') of every '>' line
RECURSIVE FastaIds(_)
FastaIds(file) ==
    IF file = <<>> THEN <<>>
    ELSE IF Head(file) # <<>> /\ Head(Head(file)) = ">"
         THEN <<LStripGt(SplitSemi(Head(file)))>> \o FastaIds(Tail(file))
         ELSE FastaIds(Tail(file))

\* the defaultdict(list) lookup species_dict[item]
ListOf(sd, item) == IF Has(sd, item) THEN sd.val[item] ELSE <<>>

FillItemSkipped(bd, sd, item) == [bd |-> bd, sd |-> sd]

\* lines 171-174: the body of the loop of fill_out_blast_dict
FillItem(bd, sd, item) ==
    IF ~Has(bd, item)
    THEN [bd |-> Put(bd, item, [pident |-> NAValue, qcov |-> NAValue]),
          sd |-> Put(sd, item, Append(ListOf(sd, item), NA))]
    ELSE [bd |-> bd, sd |-> sd]

\* lines 169-175: the loop of fill_out_blast_dict over zotu_list
RECURSIVE FillOutBlastDict(_, _, _)
FillOutBlastDict(zl, bd, sd) ==
    IF zl = <<>> THEN [bd |-> bd, sd |-> sd]
    ELSE LET r == FillItem(bd, sd, Head(zl))
         IN  FillOutBlastDict(Tail(zl), r.bd, r.sd)

TableToMemory ==
    /\ pc = "list"
    /\ \E ids \in SeqsUpTo(ClusterIds, MaxZotu) :
          zotu_list' = TableIds(TableFile(ids))
    /\ pc' = "fill"
    /\ UNCHANGED <<strategy, nread, line, infile, seen, blast_dict,
                   species_dict, uniq_species_list, names_file, nodes_file,
                   crabs_file, id_key_dict,
                   taxon_key_dict, id_key_rank_up_values_dict,
                   species_taxid_dict, species_lineages_dict,
                   filter_species_lineage_dict, idx, mrca_dict,
                   contributing_species, report, walk_item, walked>>

FastaToMemory ==
    /\ pc = "list"
    /\ \E ids \in SeqsUpTo(ClusterIds, MaxZotu) :
          zotu_list' = FastaIds(FastaFile(ids))
    /\ pc' = "fill"
    /\ UNCHANGED <<strategy, nread, line, infile, seen, blast_dict,
                   species_dict, uniq_species_list, names_file, nodes_file,
                   crabs_file, id_key_dict,
                   taxon_key_dict, id_key_rank_up_values_dict,
                   species_taxid_dict, species_lineages_dict,
                   filter_species_lineage_dict, idx, mrca_dict,
                   contributing_species, report, walk_item, walked>>

FillOut ==
    /\ pc = "fill"
    /\ LET r == FillOutBlastDict(zotu_list, blast_dict, species_dict)
       IN  blast_dict' = r.bd /\ species_dict' = r.sd
    /\ pc' = IF strategy = "tree" THEN "names" ELSE "crabs"
    /\ UNCHANGED <<nread, line, infile, seen, uniq_species_list, rest>>

-----------------------------------------------------------------------------
(* Tree strategy: names_to_memory, nodes_to_memory, species_to_taxid_map,   *)
(* generate_lineage, filter_lineage                                         *)

ranks_needed ==
    <<"kingdom", "phylum", "class", "order", "family", "genus", "species">>

\* names.dmp: a line is <<tax id, name, name class>> (fields 0, 1 and 6/3)
NamesFiles ==
    {<< <<"1", <<"root">>, "scientific name">>,
        <<"2", <<"Aus">>, "scientific name">>,
        <<"3", <<"Aus", " ", "a">>, "scientific name">>,
        <<"3", <<"Aus", " ", "b">>, "synonym">>,
        <<"4", <<"Aus", " ", "b">>, "scientific name">> >>}

\* nodes.dmp: a line is <<tax id, parent tax id, rank>>; "1" is the root
NodeRanks == {"genus", "species"}

NodesFiles ==
    {<< <<"1", "1", "no rank">>, <<"2", "1", r2>>,
        <<"3", p3, "species">>, <<"4", p4, r4>> >> :
        r2 \in NodeRanks, r4 \in NodeRanks,
        p3 \in {"1", "2"}, p4 \in {"1", "2", "3"}}

\* the taxonomy of a genus "2" with the two species "3" and "4"
SampleNodes ==
    << <<"1", "1", "no rank">>, <<"2", "1", "genus">>,
       <<"3", "2", "species">>, <<"4", "2", "species">> >>

\* lines 264-270: the scientific names, by id and by name
RECURSIVE NamesToMemoryFrom(_, _, _)
NamesToMemoryFrom(file, ids, taxa) ==
    IF file = <<>> THEN [id_key_dict |-> ids, taxon_key_dict |-> taxa]
    ELSE LET l == Head(file)
             taxon_name == ReplaceSpace(l[2])
         IN  IF l[3] = "scientific name"
             THEN NamesToMemoryFrom(Tail(file),
                                    (l[1] :> taxon_name) @@ ids,
                                    (taxon_name :> l[1]) @@ taxa)
             ELSE NamesToMemoryFrom(Tail(file), ids, taxa)

\* lines 283-288: id -> <<rank, parent id>>
RECURSIVE NodesToMemoryFrom(_, _)
NodesToMemoryFrom(file, d) ==
    IF file = <<>> THEN d
    ELSE LET l == Head(file)
         IN  NodesToMemoryFrom(Tail(file), (l[1] :> <<l[3], l[2]>>) @@ d)

\* lines 300-305: species name -> tax id, in the order of uniq_species_list
RECURSIVE SpeciesToTaxid(_, _, _)
SpeciesToTaxid(uniq, taxa, d) ==
    IF uniq = <<>> THEN d
    ELSE LET species_name == Head(uniq)
             key == ReplaceSpace(species_name)
         IN  SpeciesToTaxid(Tail(uniq), taxa,
                 Put(d, species_name,
                     IF key \in DOMAIN taxa THEN taxa[key] ELSE "NA"))

\* lines 321-323: the walk from item to the root, appended to acc.
\* "loop": the walk came back to a taxon it left (it never ends);
\* "KeyError": an id missing from nodes.dmp or from names.dmp
RECURSIVE Walk(_, _, _, _, _)
Walk(item, acc, visited, nodes, names) ==
    IF item \notin DOMAIN nodes THEN [status |-> "KeyError", lineage |-> acc]
    ELSE IF item = nodes[item][2] THEN [status |-> "ok", lineage |-> acc]
    ELSE IF item \in visited THEN [status |-> "loop", lineage |-> acc]
    ELSE IF item \notin DOMAIN names
         THEN [status |-> "KeyError", lineage |-> acc]
    ELSE Walk(nodes[item][2],
              Append(acc, <<nodes[item][1], item, names[item]>>),
              visited \cup {item}, nodes, names)

\* the defaultdict lookup d[k]: a missing key reads as the empty container
Lookup(d, k) == IF k \in DOMAIN d THEN d[k] ELSE <<>>

\* lines 316-323: the loop over species_taxid_dict.values(); the walk of a
\* tax id that two species names share is appended twice
RECURSIVE GenerateLineageFrom(_, _, _, _)
GenerateLineageFrom(items, d, nodes, names) ==
    IF items = <<>> THEN [status |-> "ok", d |-> d]
    ELSE IF Head(items) = "NA"
         THEN GenerateLineageFrom(Tail(items), d, nodes, names)
    ELSE LET w == Walk(Head(items), Lookup(d, Head(items)), {}, nodes, names)
             d2 == IF w.lineage = <<>> THEN d
                   ELSE (Head(items) :> w.lineage) @@ d
         IN  IF w.status = "ok"
             THEN GenerateLineageFrom(Tail(items), d2, nodes, names)
             ELSE [status |-> w.status, d |-> d2]

\* lines 339-344: the entries of one canonical rank
RECURSIVE RankEntries(_, _)
RankEntries(rank, raw) ==
    IF raw = <<>> THEN <<>>
    ELSE (IF rank = Head(raw)[1] THEN <<Head(raw)[3]>> ELSE <<>>)
         \o RankEntries(rank, Tail(raw))

\* lines 337-344: every match of the rank is appended, 'NA' when none
RankField(rank, raw) ==
    LET found == RankEntries(rank, raw)
    IN  IF found = <<>> THEN <<NA>> ELSE found

\* lines 337-344: the loop over ranks_needed for one raw lineage
RECURSIVE FilterOne(_, _)
FilterOne(ranks, raw) ==
    IF ranks = <<>> THEN <<>>
    ELSE RankField(Head(ranks), raw) \o FilterOne(Tail(ranks), raw)

\* lines 335-345: filter_lineage over the keys of species_lineages_dict
FilterLineageOf(d) == [k \in DOMAIN d |-> FilterOne(ranks_needed, d[k])]

-----------------------------------------------------------------------------
(* generate_mrca.  A Python list is an object: filter_species_lineage_dict  *)
(* maps a tax id to the list it holds, and a value of mrca_dict is either   *)
(* that very list (an alias) or a list of its own.                          *)

Alias(t) == [kind |-> "alias", tax |-> t, val |-> <<>>]

Own(v) == [kind |-> "own", tax |-> "", val |-> v]

\* the list a value of mrca_dict refers to, as it is now
Deref(fmap, ref) == IF ref.kind = "alias" THEN fmap[ref.tax] ELSE ref.val

\* lines 358-360: one 'NA' per canonical rank
NALineage == [i \in 1..Len(ranks_needed) |-> NA]

\* the defaultdict(list) lookup: a missing key is inserted with a new list
Touch(fmap, t) == IF t \in DOMAIN fmap THEN fmap ELSE (t :> <<>>) @@ fmap

\* lines 373-375: mrca_lineage after the loop over its indices, run until
\* the end or until lineage[i] raises IndexError
MergeInto(m, lineage) ==
    [i \in 1..Len(m) |->
        IF i <= Len(lineage) /\ m[i] # lineage[i] THEN NA ELSE m[i]]

\* lines 365-375: the loop over the candidates cands[k..]; first is the tax
\* id whose list mrca_lineage is ("" while count = 0)
RECURSIVE MrcaMulti(_, _, _, _, _)
MrcaMulti(cands, k, fmap, first, taxids) ==
    IF k > Len(cands)
    THEN [status |-> "ok", fmap |-> fmap,
          ref |-> IF first = "" THEN Own(<<>>) ELSE Alias(first)]
    ELSE IF ~Has(taxids, cands[k])
    THEN [status |-> "KeyError", fmap |-> fmap, ref |-> Own(<<>>)]
    ELSE LET t == taxids.val[cands[k]]
             f1 == Touch(fmap, t)
             lineage == f1[t]
         IN  IF Len(lineage) = 0
             THEN MrcaMulti(cands, k + 1, f1, first, taxids)
             ELSE IF first = ""
             THEN MrcaMulti(cands, k + 1, f1, t, taxids)
             ELSE LET f2 == [f1 EXCEPT ![first] = MergeInto(@, lineage)]
                  IN  IF Len(lineage) < Len(f1[first])
                      THEN [status |-> "IndexError", fmap |-> f2,
                            ref |-> Own(<<>>)]
                      ELSE MrcaMulti(cands, k + 1, f2, first, taxids)

\* lines 354-361: a cluster of one candidate
MrcaSingle(cands, fmap, taxids) ==
    IF Has(taxids, cands[1])
    THEN [status |-> "ok", fmap |-> Touch(fmap, taxids.val[cands[1]]),
          ref |-> Alias(taxids.val[cands[1]])]
    ELSE [status |-> "ok", fmap |-> fmap, ref |-> Own(NALineage)]

\* lines 354-376: the body of the loop of generate_mrca over species_dict
MrcaCluster(cands, fmap, taxids) ==
    IF Len(cands) = 1
    THEN MrcaSingle(cands, fmap, taxids)
    ELSE MrcaMulti(cands, 1, fmap, "", taxids)

\* line 388: the data row of one cluster
Row(item, bd, sd, mrca, fmap) ==
    [id |-> item,
     ranks |-> Deref(fmap, mrca[item]),
     pident |-> bd.val[item].pident,
     qcov |-> bd.val[item].qcov,
     species |-> sd.val[item]]

\* lines 387-388: one row per key of blast_dict, in its order
WriteRows(bd, sd, mrca, fmap) ==
    [i \in 1..Len(bd.keys) |-> Row(bd.keys[i], bd, sd, mrca, fmap)]

-----------------------------------------------------------------------------
(* The tree strategy, function by function *)

parsed == <<strategy, nread, line, infile, seen, blast_dict, species_dict,
            uniq_species_list, zotu_list, names_file, nodes_file,
            crabs_file, walk_item, walked>>

NamesToMemory ==
    /\ pc = "names"
    /\ LET r == NamesToMemoryFrom(names_file, EmptyFcn, EmptyFcn)
       IN  id_key_dict' = r.id_key_dict /\ taxon_key_dict' = r.taxon_key_dict
    /\ pc' = "nodes"
    /\ UNCHANGED <<parsed, id_key_rank_up_values_dict, species_taxid_dict,
                   species_lineages_dict, filter_species_lineage_dict, idx,
                   mrca_dict, contributing_species, report>>

NodesToMemory ==
    /\ pc = "nodes"
    /\ id_key_rank_up_values_dict' = NodesToMemoryFrom(nodes_file, EmptyFcn)
    /\ pc' = "taxid"
    /\ UNCHANGED <<parsed, id_key_dict, taxon_key_dict, species_taxid_dict,
                   species_lineages_dict, filter_species_lineage_dict, idx,
                   mrca_dict, contributing_species, report>>

SpeciesToTaxidMap ==
    /\ pc = "taxid"
    /\ species_taxid_dict' =
           SpeciesToTaxid(uniq_species_list, taxon_key_dict, EmptyDict)
    /\ pc' = "lineage"
    /\ UNCHANGED <<parsed, id_key_dict, taxon_key_dict,
                   id_key_rank_up_values_dict, species_lineages_dict,
                   filter_species_lineage_dict, idx, mrca_dict,
                   contributing_species, report>>

\* species_taxid_dict.values(), in the order of the keys
TaxidValues(d) == [i \in 1..Len(d.keys) |-> d.val[d.keys[i]]]

GenerateLineage ==
    /\ pc = "lineage"
    /\ LET r == GenerateLineageFrom(TaxidValues(species_taxid_dict), EmptyFcn,
                                    id_key_rank_up_values_dict, id_key_dict)
       IN  /\ species_lineages_dict' = r.d
           /\ pc' = IF r.status = "ok" THEN "filter" ELSE r.status
    /\ UNCHANGED <<parsed, id_key_dict, taxon_key_dict,
                   id_key_rank_up_values_dict, species_taxid_dict,
                   filter_species_lineage_dict, idx, mrca_dict,
                   contributing_species, report>>

FilterLineage ==
    /\ pc = "filter"
    /\ filter_species_lineage_dict' = FilterLineageOf(species_lineages_dict)
    /\ pc' = "mrca"
    /\ UNCHANGED <<parsed, id_key_dict, taxon_key_dict,
                   id_key_rank_up_values_dict, species_taxid_dict,
                   species_lineages_dict, idx, mrca_dict,
                   contributing_species, report>>

\* one iteration of the loop of generate_mrca
GenerateMrca ==
    /\ pc = "mrca"
    /\ idx < Len(species_dict.keys)
    /\ LET item == species_dict.keys[idx + 1]
           r == MrcaCluster(species_dict.val[item],
                            filter_species_lineage_dict, species_taxid_dict)
       IN  /\ filter_species_lineage_dict' = r.fmap
           /\ IF r.status = "ok"
              THEN /\ mrca_dict' = (item :> r.ref) @@ mrca_dict
                   /\ idx' = idx + 1
                   /\ pc' = pc
              ELSE /\ pc' = r.status
                   /\ UNCHANGED <<mrca_dict, idx>>
    /\ UNCHANGED <<parsed, id_key_dict, taxon_key_dict,
                   id_key_rank_up_values_dict, species_taxid_dict,
                   species_lineages_dict, contributing_species, report>>

\* generate_mrca has returned: write_output writes every row
WriteOutput ==
    /\ pc = "mrca"
    /\ idx = Len(species_dict.keys)
    /\ report' = WriteRows(blast_dict, species_dict, mrca_dict,
                           filter_species_lineage_dict)
    /\ pc' = "done"
    /\ UNCHANGED <<parsed, id_key_dict, taxon_key_dict,
                   id_key_rank_up_values_dict, species_taxid_dict,
                   species_lineages_dict, filter_species_lineage_dict, idx,
                   mrca_dict, contributing_species>>

-----------------------------------------------------------------------------
(* The run from the hit file to the report, tree strategy *)

Init ==
    /\ pc = "blast"
    /\ strategy = "tree"
    /\ nread = 0
    /\ line = NoLine
    /\ infile = <<>>
    /\ seen = <<>>
    /\ blast_dict = EmptyDict
    /\ species_dict = EmptyDict
    /\ uniq_species_list = <<>>
    /\ zotu_list = <<>>
    /\ names_file \in NamesFiles
    /\ nodes_file = SampleNodes
    /\ crabs_file = <<>>
    /\ id_key_dict = EmptyFcn
    /\ taxon_key_dict = EmptyFcn
    /\ id_key_rank_up_values_dict = EmptyFcn
    /\ species_taxid_dict = EmptyDict
    /\ species_lineages_dict = EmptyFcn
    /\ filter_species_lineage_dict = EmptyFcn
    /\ idx = 0
    /\ mrca_dict = EmptyFcn
    /\ contributing_species = EmptyFcn
    /\ report = <<>>
    /\ walk_item = ""
    /\ walked = 0

TreeNext ==
    \/ NamesToMemory
    \/ NodesToMemory
    \/ SpeciesToTaxidMap
    \/ GenerateLineage
    \/ FilterLineage
    \/ GenerateMrca
    \/ WriteOutput

Next ==
    \/ ReadHit
    \/ ReadNotAssigned
    \/ EndBlast
    \/ TableToMemory
    \/ FastaToMemory
    \/ FillOut
    \/ TreeNext

Spec == Init /\ [][Next]_vars

-----------------------------------------------------------------------------
(* Table strategy: crabs_to_memory, create_mrca, write_output2 *)

table_keys ==
    <<"kingdom", "phylum", "class", "order", "family", "genus", "species",
      "common">>

\* lines 188-198: a line is <<common name, tax id, kingdom, ..., species>>;
\* the first line of a tax id of uniq_species_list is kept
RECURSIVE CrabsToMemoryFrom(_, _, _)
CrabsToMemoryFrom(file, uniq, d) ==
    IF file = <<>> THEN d
    ELSE LET l == Head(file)
             tax_id == l[2]
             entry == [k \in Range(table_keys) |->
                          IF k = "common" THEN l[1]
                          ELSE l[2 + (CHOOSE i \in 1..Len(ranks_needed) : ranks_needed[i] = k)]]
         IN  IF tax_id \in Range(uniq) /\ tax_id \notin DOMAIN d
             THEN CrabsToMemoryFrom(Tail(file), uniq, (tax_id :> entry) @@ d)
             ELSE CrabsToMemoryFrom(Tail(file), uniq, d)

\* lineage.get(key, 'NA')
GetOrNA(lineage, key) == IF key \in DOMAIN lineage THEN lineage[key] ELSE NA

\* lines 215-220 and 226-229: the display name of a candidate
DisplayName(lineage) ==
    IF GetOrNA(lineage, "species") # NA
    THEN lineage["species"]
    ELSE GetOrNA(lineage, "common")

\* lines 234-236: the keys of mrca_lineage that lineage lacks or contradicts
NarrowDict(m, lineage) ==
    [key \in DOMAIN m |->
        IF key \notin DOMAIN lineage \/ m[key] # lineage[key]
        THEN NA ELSE m[key]]

\* lines 224-236: the loop over the candidates cands[k..]
RECURSIVE CreateMulti(_, _, _, _, _)
CreateMulti(cands, k, tbl, m, names) ==
    IF k > Len(cands) THEN [tbl |-> tbl, mrca |-> m, names |-> names]
    ELSE LET t == Touch(tbl, cands[k])
             lineage == t[cands[k]]
         IN  CreateMulti(cands, k + 1, t,
                         IF k = 1 THEN lineage ELSE NarrowDict(m, lineage),
                         Append(names, DisplayName(lineage)))

\* lines 211-237: the body of the loop of create_mrca over species_dict
CreateCluster(cands, tbl) ==
    IF Len(cands) = 1
    THEN LET t == Touch(tbl, cands[1])
         IN  [tbl |-> t, mrca |-> t[cands[1]],
              names |-> <<DisplayName(t[cands[1]])>>]
    ELSE CreateMulti(cands, 1, tbl, <<>>, <<>>)

\* lines 249-252: the data row of one cluster, all 'NA' on a KeyError
Row2(item, bd, mrca, contributing) ==
    IF \A i \in 1..Len(ranks_needed) : ranks_needed[i] \in DOMAIN mrca[item]
    THEN [id |-> item,
          ranks |-> [i \in 1..Len(ranks_needed) |-> mrca[item][ranks_needed[i]]],
          pident |-> bd.val[item].pident,
          qcov |-> bd.val[item].qcov,
          species |-> Lookup(contributing, item)]
    ELSE [id |-> item, ranks |-> [i \in 1..Len(ranks_needed) |-> NA], pident |-> NAValue,
          qcov |-> NAValue, species |-> <<NA>>]

\* lines 248-252: one row per key of blast_dict, in its order
WriteRows2(bd, mrca, contributing) ==
    [i \in 1..Len(bd.keys) |-> Row2(bd.keys[i], bd, mrca, contributing)]

tree_maps == <<id_key_dict, taxon_key_dict, id_key_rank_up_values_dict,
               species_taxid_dict, filter_species_lineage_dict>>

CrabsToMemory ==
    /\ pc = "crabs"
    /\ species_lineages_dict' =
           CrabsToMemoryFrom(crabs_file, uniq_species_list, EmptyFcn)
    /\ pc' = "create"
    /\ UNCHANGED <<parsed, tree_maps, idx, mrca_dict, contributing_species,
                   report>>

\* one iteration of the loop of create_mrca
CreateMrca ==
    /\ pc = "create"
    /\ idx < Len(species_dict.keys)
    /\ LET item == species_dict.keys[idx + 1]
           r == CreateCluster(species_dict.val[item], species_lineages_dict)
       IN  /\ species_lineages_dict' = r.tbl
           /\ mrca_dict' = (item :> r.mrca) @@ mrca_dict
           /\ contributing_species' = (item :> r.names) @@ contributing_species
    /\ idx' = idx + 1
    /\ UNCHANGED <<pc, parsed, tree_maps, report>>

\* create_mrca has returned: write_output2 writes every row
WriteOutput2 ==
    /\ pc = "create"
    /\ idx = Len(species_dict.keys)
    /\ report' = WriteRows2(blast_dict, mrca_dict, contributing_species)
    /\ pc' = "done"
    /\ UNCHANGED <<parsed, tree_maps, species_lineages_dict, idx, mrca_dict,
                   contributing_species>>

TableNext ==
    \/ CrabsToMemory
    \/ CreateMrca
    \/ WriteOutput2

-----------------------------------------------------------------------------
(* The resolver and consensus stages on their own: the run starts where    *)
(* the hit file and the cluster list have been read, in any state           *)
(* blast_to_memory and fill_out_blast_dict can leave behind.                *)

MaxClusters == 2
MaxCand == 3

QueryKeys == <<<<"q1">>, <<"q2">>, <<"q3">>, <<"q4">>>>

\* candidate names: two spellings of taxon "3", taxon "4", the null taxon
CandNames == {<<"Aus", " ", "a">>, <<"Aus", "_", "a">>, <<"Aus", "_", "b">>,
              NullTaxon}

\* a candidate list of blast_to_memory (the null taxon can only be the seed)
\* or the list of a back-filled cluster
CandLists ==
    {c \in SeqsUpTo(CandNames, MaxCand) :
        /\ c # <<>>
        /\ \A i \in 2..Len(c) : c[i] # NullTaxon} \cup {<<NA>>}

RECURSIVE ListsUpTo(_, _)
ListsUpTo(S, n) ==
    IF n = 0 THEN {<<>>}
    ELSE LET shorter == ListsUpTo(S, n - 1)
         IN  shorter \cup {Append(s, x) : s \in shorter, x \in S}

RECURSIVE FirstSeen(_, _, _)
FirstSeen(lists, k, acc) ==
    IF k > Len(lists) THEN acc
    ELSE IF lists[k] = <<>> THEN FirstSeen(lists, k + 1, acc)
    ELSE FirstSeen([lists EXCEPT ![k] = Tail(@)], k,
                   IF Head(lists[k]) = NA THEN acc
                   ELSE AppendIfAbsent(acc, Head(lists[k])))

DictOf(keys, f) == [keys |-> keys, val |-> f]

\* the crabs table: taxon "Aus a" and a sister, a cousin or a nameless taxon
CrabsA ==
    <<<<"a">>, <<"Aus", " ", "a">>, <<"K">>, <<"P">>, <<"C">>, <<"O">>,
      <<"F">>, <<"Aus">>, <<"Aus", " ", "a">>>>

CrabsA2 ==
    <<<<"a">>, <<"Aus", " ", "a">>, <<"K2">>, <<"P">>, <<"C">>, <<"O">>,
      <<"F">>, <<"Aus">>, <<"Aus", " ", "a">>>>

CrabsSister ==
    <<<<"b">>, <<"Aus", "_", "b">>, <<"K">>, <<"P">>, <<"C">>, <<"O">>,
      <<"F">>, <<"Aus">>, <<"Aus", " ", "b">>>>

CrabsCousin ==
    <<<<"b">>, <<"Aus", "_", "b">>, <<"K">>, <<"P">>, <<"C">>, <<"O">>,
      <<"F">>, <<"Bus">>, <<"Bus", " ", "b">>>>

CrabsNameless ==
    <<<<"b">>, <<"Aus", "_", "b">>, <<"K">>, <<"P">>, <<"C">>, <<"O">>,
      <<"F">>, <<"Aus">>, NA>>

CrabsFiles ==
    {<<CrabsA>>, <<CrabsA, CrabsSister>>, <<CrabsCousin, CrabsA, CrabsA2>>,
     <<CrabsA, CrabsNameless>>}

InitMrca(strategies, nodes_files) ==
    /\ strategy \in strategies
    /\ pc = IF strategy = "tree" THEN "names" ELSE "crabs"
    /\ nread = 0
    /\ line = NoLine
    /\ infile = <<>>
    /\ \E lists \in ListsUpTo(CandLists, MaxClusters) \ {<<>>} :
          LET keys == SubSeq(QueryKeys, 1, Len(lists))
              hit(i) == lists[i] # <<NA>>
          IN  /\ species_dict =
                     DictOf(keys, [k \in Range(keys) |->
                         lists[CHOOSE i \in 1..Len(keys) : keys[i] = k]])
              /\ blast_dict =
                     DictOf(keys, [k \in Range(keys) |->
                         IF hit(CHOOSE i \in 1..Len(keys) : keys[i] = k)
                         THEN [pident |-> Num(98), qcov |-> Num(100)]
                         ELSE [pident |-> NAValue, qcov |-> NAValue]])
              /\ uniq_species_list = FirstSeen(lists, 1, <<>>)
              /\ zotu_list = keys
              /\ seen = SelectSeq(keys,
                     LAMBDA k : hit(CHOOSE i \in 1..Len(keys) : keys[i] = k))
    /\ names_file \in (IF strategy = "tree" THEN NamesFiles ELSE {<<>>})
    /\ nodes_file \in (IF strategy = "tree" THEN nodes_files ELSE {<<>>})
    /\ crabs_file \in (IF strategy = "tree" THEN {<<>>} ELSE CrabsFiles)
    /\ id_key_dict = EmptyFcn
    /\ taxon_key_dict = EmptyFcn
    /\ id_key_rank_up_values_dict = EmptyFcn
    /\ species_taxid_dict = EmptyDict
    /\ species_lineages_dict = EmptyFcn
    /\ filter_species_lineage_dict = EmptyFcn
    /\ idx = 0
    /\ mrca_dict = EmptyFcn
    /\ contributing_species = EmptyFcn
    /\ report = <<>>
    /\ walk_item = ""
    /\ walked = 0

InitTree == InitMrca({"tree"}, NodesFiles)

InitSampleTree == InitMrca({"tree"}, {SampleNodes})

InitTable == InitMrca({"table"}, {})

\* the tree strategy over every taxonomy of NodesFiles
SpecTree == InitTree /\ [][TreeNext]_vars

\* the tree strategy over the taxonomy of one genus and its two species
SpecSampleTree == InitSampleTree /\ [][TreeNext]_vars

\* the table strategy over every table of CrabsFiles
SpecTable == InitTable /\ [][TableNext]_vars

-----------------------------------------------------------------------------
(* generate_lineage step by step: one action per turn of the for loop of    *)
(* line 316 and per evaluation of the while condition of line 321, so that  *)
(* a walk that never leaves the loop is a behaviour of the model.           *)

MaxWalk == 6

\* nodes.dmp with the parents of "3" and "4" drawn so that some files hold a
\* parent cycle (3 -> 4 -> 3) and some a parent id without a line ("9")
WalkNodesFiles ==
    {<< <<"1", "1", "no rank">>, <<"2", "1", "genus">>,
        <<"3", p3, "species">>, <<"4", p4, "species">> >> :
        p3 \in {"2", "4"}, p4 \in {"2", "3", "9"}}

\* line 322: append to the raw lineage.  The list of a walk that does not
\* end grows at every turn; entries past MaxWalk are not recorded.
AppendCapped(lst, x) == IF Len(lst) < MaxWalk THEN Append(lst, x) ELSE lst

\* lines 316-320: the next value of species_taxid_dict; 'NA' is skipped
NextValue ==
    /\ pc = "lineage"
    /\ walk_item = ""
    /\ walked < Len(species_taxid_dict.keys)
    /\ LET v == TaxidValues(species_taxid_dict)[walked + 1]
       IN  IF v = "NA"
           THEN walked' = walked + 1 /\ UNCHANGED walk_item
           ELSE walk_item' = v /\ UNCHANGED walked
    /\ UNCHANGED <<pc, strategy, nread, line, infile, seen, blast_dict,
                   species_dict, uniq_species_list, zotu_list, names_file,
                   nodes_file, crabs_file, id_key_dict, taxon_key_dict,
                   id_key_rank_up_values_dict, species_taxid_dict,
                   species_lineages_dict, filter_species_lineage_dict, idx,
                   mrca_dict, contributing_species, report>>

\* lines 321-323: the while condition and, when it holds, the loop body
WalkStep ==
    /\ pc = "lineage"
    /\ walk_item # ""
    /\ LET nodes == id_key_rank_up_values_dict
           initial_item == TaxidValues(species_taxid_dict)[walked + 1]
       IN  IF walk_item \notin DOMAIN nodes
           THEN /\ pc' = "KeyError"
                /\ UNCHANGED <<walk_item, walked, species_lineages_dict>>
           ELSE IF walk_item = nodes[walk_item][2]
           THEN /\ walk_item' = ""
                /\ walked' = walked + 1
                /\ UNCHANGED <<pc, species_lineages_dict>>
           ELSE IF walk_item \notin DOMAIN id_key_dict
           THEN /\ pc' = "KeyError"
                /\ species_lineages_dict' =
                       Touch(species_lineages_dict, initial_item)
                /\ UNCHANGED <<walk_item, walked>>
           ELSE /\ species_lineages_dict' =
                       (initial_item :>
                           AppendCapped(
                               Lookup(species_lineages_dict, initial_item),
                               <<nodes[walk_item][1], walk_item,
                                 id_key_dict[walk_item]>>))
                       @@ species_lineages_dict
                /\ walk_item' = nodes[walk_item][2]
                /\ UNCHANGED <<pc, walked>>
    /\ UNCHANGED <<strategy, nread, line, infile, seen, blast_dict,
                   species_dict, uniq_species_list, zotu_list, names_file,
                   nodes_file, crabs_file, id_key_dict, taxon_key_dict,
                   id_key_rank_up_values_dict, species_taxid_dict,
                   filter_species_lineage_dict, idx, mrca_dict,
                   contributing_species, report>>

\* line 324: the for loop is exhausted and generate_lineage returns
GenerateLineageReturns ==
    /\ pc = "lineage"
    /\ walk_item = ""
    /\ walked = Len(species_taxid_dict.keys)
    /\ pc' = "filter"
    /\ UNCHANGED <<strategy, nread, line, infile, seen, blast_dict,
                   species_dict, uniq_species_list, zotu_list, names_file,
                   nodes_file, crabs_file, id_key_dict, taxon_key_dict,
                   id_key_rank_up_values_dict, species_taxid_dict,
                   species_lineages_dict, filter_species_lineage_dict, idx,
                   mrca_dict, contributing_species, report, walk_item,
                   walked>>

WalkNext ==
    \/ NamesToMemory
    \/ NodesToMemory
    \/ SpeciesToTaxidMap
    \/ NextValue
    \/ WalkStep
    \/ GenerateLineageReturns

InitWalk == InitMrca({"tree"}, WalkNodesFiles)

\* the resolver up to the return of generate_lineage; the interpreter keeps
\* executing the statement it is at, hence the fairness on the next step
SpecWalk == InitWalk /\ [][WalkNext]_vars /\ WF_vars(WalkNext)

\* the step-by-step walk builds what GenerateLineageFrom builds
WalkAgreesWithGenerateLineage ==
    pc = "filter" =>
        species_lineages_dict =
            GenerateLineageFrom(TaxidValues(species_taxid_dict), EmptyFcn,
                                id_key_rank_up_values_dict, id_key_dict).d

-----------------------------------------------------------------------------
(* Hit parser and report: C1 - C4 *)

IsReadHit == pc = "blast" /\ Len(infile') = Len(infile) + 1

NoRepeat(lst) == \A i, j \in 1..Len(lst) : lst[i] = lst[j] => i = j

\* the cluster ids of the data rows, in file order
RowIds == [i \in 1..Len(report) |-> report[i].id]

\* the elements of lst, each at its first occurrence
RECURSIVE FirstOccurrences(_)
FirstOccurrences(lst) ==
    IF lst = <<>> THEN <<>>
    ELSE <<Head(lst)>> \o
         FirstOccurrences(SelectSeq(Tail(lst), LAMBDA x : x # Head(lst)))

\* the clusters of zotu_list that no hit record names
Hitless == SelectSeq(zotu_list, LAMBDA c : c \notin Range(seen))

AllUnknown(row) ==
    /\ row.ranks = NALineage
    /\ row.pident = NAValue
    /\ row.qcov = NAValue
    /\ row.species = <<NA>>

\* C1 as stated: the data rows of the report are exactly the clusters of
\* ClusterUniverse (zotu_list), each once and in ClusterUniverse order, and a
\* cluster without a hit has all-unknown fields.
C1_RowsAreClusterUniverse ==
    pc = "done" =>
        /\ RowIds = zotu_list
        /\ \A i \in 1..Len(report) :
              report[i].id \notin Range(seen) => AllUnknown(report[i])

\* C1 amended: the data rows are the queries of the hit file in first-seen
\* order followed by the clusters of ClusterUniverse without a hit, in
\* ClusterUniverse order; every cluster of ClusterUniverse has exactly one
\* row, and a cluster without a hit has all-unknown fields.
C1_RowsAreHitsThenHitless ==
    pc = "done" =>
        /\ RowIds = seen \o FirstOccurrences(Hitless)
        /\ \A c \in Range(zotu_list) :
              Cardinality({i \in 1..Len(report) : report[i].id = c}) = 1
        /\ \A i \in 1..Len(report) :
              report[i].id \notin Range(seen) => AllUnknown(report[i])

\* a report of a hit cluster that ClusterUniverse lists after a hitless one
C1_Witness ==
    /\ pc = "done"
    /\ Len(zotu_list) = 2
    /\ zotu_list[1] \notin Range(seen)
    /\ zotu_list[2] \in Range(seen)
    /\ Len(report) = 3

\* record i read so far is a hit of query q for taxon t with q's best values
Achieved(q, t) ==
    \E i \in 1..Len(infile) :
        /\ SplitSemi(infile[i].f0) = q
        /\ infile[i].f2 = t
        /\ Num(infile[i].f5) = blast_dict.val[q].pident
        /\ Num(infile[i].f7) = blast_dict.val[q].qcov

\* the claim's words for a strict improvement of record l over best
StrictlyBetter(l, best) ==
    \/ l.f7 > best.qcov.v /\ l.f5 = best.pident.v
    \/ l.f5 > best.pident.v /\ l.f7 = best.qcov.v
    \/ l.f5 > best.pident.v /\ l.f7 > best.qcov.v

C2_EveryCandidateIsBest ==
    pc = "blast" =>
        \A q \in DOMAIN species_dict.val :
            \A t \in Range(species_dict.val[q]) : Achieved(q, t)

C2_OnlyReplacePrunes ==
    [][pc = "blast" =>
        \A q \in DOMAIN species_dict.val :
            \A t \in Range(species_dict.val[q]) :
                t \notin Range(species_dict'.val[q]) =>
                    /\ IsReadHit
                    /\ q = SplitSemi(line'.f0)
                    /\ StrictlyBetter(line', blast_dict.val[q])
                    /\ species_dict'.val[q] = <<line'.f2>>]_vars

\* C2: after any prefix of the hit file, every candidate of every query
\* comes from a record of that query with the query's current best identity
\* and coverage, and a candidate leaves the list only when a strictly better
\* record resets the list to the new singleton.
C2_BestHitSet == []C2_EveryCandidateIsBest /\ C2_OnlyReplacePrunes

\* two co-best candidates are kept while a worse record is dropped
C2_Witness ==
    /\ pc = "blast"
    /\ Len(infile) = 3
    /\ \E q \in DOMAIN species_dict.val :
          /\ Len(species_dict.val[q]) = 2
          /\ SplitSemi(infile[3].f0) = q
          /\ infile[3].f5 < blast_dict.val[q].pident.v

\* C3: a record of a query already seen that strictly improves coverage at
\* equal identity, identity at equal coverage, or both, replaces the
\* candidate list by the singleton new candidate and sets both best values.
C3_StrictImprovementReplaces ==
    [][IsReadHit =>
        LET l == line'
            q == SplitSemi(l.f0)
        IN  (Has(blast_dict, q) /\ StrictlyBetter(l, blast_dict.val[q])) =>
                /\ species_dict'.val[q] = <<l.f2>>
                /\ blast_dict'.val[q] =
                       [pident |-> Num(l.f5), qcov |-> Num(l.f7)]]_vars

\* two co-best candidates have been discarded for a record of higher identity
C3_Witness ==
    /\ pc = "blast"
    /\ Len(infile) = 3
    /\ SplitSemi(infile[1].f0) = SplitSemi(infile[3].f0)
    /\ SplitSemi(infile[2].f0) = SplitSemi(infile[3].f0)
    /\ infile[1].f2 # infile[2].f2
    /\ infile[3].f2 = NullTaxon
    /\ infile[1].f5 = infile[2].f5 /\ infile[1].f7 = infile[2].f7
    /\ infile[3].f5 > infile[2].f5 /\ infile[3].f7 = infile[2].f7
    /\ species_dict.val[SplitSemi(infile[3].f0)] = <<NullTaxon>>

C4_TieAppends ==
    [][IsReadHit =>
        LET l == line'
            q == SplitSemi(l.f0)
        IN  (/\ Has(blast_dict, q)
             /\ Num(l.f5) = blast_dict.val[q].pident
             /\ Num(l.f7) = blast_dict.val[q].qcov
             /\ l.f2 \notin Range(species_dict.val[q])
             /\ l.f2 # NullTaxon) =>
                /\ species_dict'.val[q] = Append(species_dict.val[q], l.f2)
                /\ blast_dict'.val[q] = blast_dict.val[q]]_vars

C4_TwoTiedHitsKept ==
    (/\ pc = "blast"
     /\ nread = 2
     /\ Len(infile) = 2
     /\ SplitSemi(infile[1].f0) = SplitSemi(infile[2].f0)
     /\ infile[1].f5 = infile[2].f5
     /\ infile[1].f7 = infile[2].f7
     /\ infile[1].f2 # infile[2].f2
     /\ infile[2].f2 # NullTaxon) =>
        species_dict.val[SplitSemi(infile[1].f0)] =
            <<infile[1].f2, infile[2].f2>>

C4_NoDuplicates ==
    \A q \in DOMAIN species_dict.val : NoRepeat(species_dict.val[q])

\* C4: a record that ties both best values of its query, with a taxon that
\* is not listed and is not the null taxon, is appended and leaves the best
\* values unchanged; two tied hits of distinct taxa are both kept, in order
\* of first appearance, and no list holds a taxon twice.
C4_CoBestAccumulate ==
    /\ C4_TieAppends
    /\ [](C4_TwoTiedHitsKept /\ C4_NoDuplicates)

\* a tied record of a new taxon has just joined a null-taxon seed
C4_Witness ==
    /\ pc = "blast"
    /\ Len(infile) = 3
    /\ infile[2].f2 = NullTaxon
    /\ species_dict.val[SplitSemi(infile[3].f0)] = <<NullTaxon, infile[3].f2>>
    /\ infile[1].f0 # infile[3].f0

-----------------------------------------------------------------------------
(* Resolver, projection and consensus: C5 - C10 *)

NoEntries(x) == DOMAIN x = {}

\* the lineage the resolver built for candidate c, empty when it built none
ResolvedOf(c) ==
    IF strategy = "tree"
    THEN IF Has(species_taxid_dict, c)
         THEN Lookup(FilterLineageOf(species_lineages_dict),
                     species_taxid_dict.val[c])
         ELSE <<>>
    ELSE Lookup(species_lineages_dict, c)

\* the consensus lineage stored for a cluster, as it is now
ConsensusOf(item) ==
    IF strategy = "tree"
    THEN Deref(filter_species_lineage_dict, mrca_dict[item])
    ELSE mrca_dict[item]

\* the ranks among the canonical ones that a lineage has an entry for
RanksOf(lin) ==
    IF strategy = "tree" THEN 1..Len(lin)
    ELSE {i \in 1..Len(ranks_needed) : ranks_needed[i] \in DOMAIN lin}

\* the entry of a lineage at canonical rank i
RankValue(lin, i) == IF strategy = "tree" THEN lin[i] ELSE lin[ranks_needed[i]]

CanonicalRanks == 1..Len(ranks_needed)

Resolvable(item) ==
    {c \in Range(species_dict.val[item]) : ~NoEntries(ResolvedOf(c))}

\* C5: the consensus lineage stored for a cluster has exactly one entry per
\* canonical rank, and every entry is the unknown marker when none of the
\* cluster's candidates resolves.
C5_ConsensusHasSevenRanks ==
    \A item \in DOMAIN mrca_dict :
        /\ RanksOf(ConsensusOf(item)) = CanonicalRanks
        /\ Resolvable(item) = {} =>
              \A i \in CanonicalRanks : RankValue(ConsensusOf(item), i) = NA

\* what the claim expects at rank i of the consensus of a set of lineages
Agreed(lins, i) ==
    IF \A x, y \in lins : RankValue(x, i) = RankValue(y, i)
    THEN RankValue(CHOOSE x \in lins : TRUE, i)
    ELSE NA

\* C6: wherever a cluster stands in the run, its consensus has at each
\* canonical rank the value all its resolvable candidates resolve to, and
\* the unknown marker where they differ.
C6_ConsensusIsRankwiseAgreement ==
    \A item \in DOMAIN mrca_dict :
        Resolvable(item) # {} =>
            \A i \in CanonicalRanks :
                /\ i \in RanksOf(ConsensusOf(item))
                /\ RankValue(ConsensusOf(item), i) =
                       Agreed({ResolvedOf(c) : c \in Resolvable(item)}, i)

OrdersOf(lst) ==
    {[i \in 1..Len(lst) |-> lst[f[i]]] :
        f \in {g \in [1..Len(lst) -> 1..Len(lst)] :
                  \A i, j \in 1..Len(lst) : g[i] = g[j] => i = j}}

\* the outcome of merging the candidate list cands in the current state
OutcomeOf(cands) ==
    IF strategy = "tree"
    THEN LET r == MrcaCluster(cands, filter_species_lineage_dict,
                              species_taxid_dict)
         IN  [status |-> r.status,
              lineage |-> IF r.status = "ok" THEN Deref(r.fmap, r.ref)
                          ELSE <<>>]
    ELSE [status |-> "ok",
          lineage |-> CreateCluster(cands, species_lineages_dict).mrca]

\* C7: the final consensus of a cluster is the same for every order of its
\* candidate list.
C7_OrderInsensitive ==
    pc \in {"mrca", "create"} =>
        \A item \in DOMAIN species_dict.val :
            \A perm \in OrdersOf(species_dict.val[item]) :
                OutcomeOf(perm) = OutcomeOf(species_dict.val[item])

\* C8: while the clusters are merged, no lineage of the resolver's map
\* changes and no consensus already stored changes.
C8_Unchanged ==
    /\ \A c \in Range(uniq_species_list) : ResolvedOf(c)' = ResolvedOf(c)
    /\ \A t \in DOMAIN filter_species_lineage_dict :
          filter_species_lineage_dict'[t] = filter_species_lineage_dict[t]
    /\ \A item \in DOMAIN mrca_dict : ConsensusOf(item)' = ConsensusOf(item)

C8_MergeLeavesMapsAlone ==
    [][(pc \in {"mrca", "create"}) => C8_Unchanged]_vars

\* the candidates of a cluster that resolve, in the order of the list
ResolvableList(item) ==
    SelectSeq(species_dict.val[item], LAMBDA c : ~NoEntries(ResolvedOf(c)))

\* C9: in a cluster of several candidates an unresolvable candidate is left
\* out of the merge wherever it stands: the consensus is the consensus of the
\* remaining resolvable candidates, and every candidate, the unresolvable one
\* too, has its display name among the contributing taxa.
C9_UnresolvableSkipped ==
    \A item \in DOMAIN mrca_dict :
        (/\ Len(species_dict.val[item]) > 1
         /\ ResolvableList(item) # <<>>
         /\ ResolvableList(item) # species_dict.val[item]) =>
            /\ ConsensusOf(item) = OutcomeOf(ResolvableList(item)).lineage
            /\ strategy = "table" =>
                  Len(contributing_species[item]) = Len(species_dict.val[item])

\* the claim's projection: per canonical rank the name of the first raw
\* element of that rank, the unknown marker when there is none
FirstMatch(raw) ==
    [k \in CanonicalRanks |->
        IF \E j \in 1..Len(raw) : raw[j][1] = ranks_needed[k]
        THEN raw[Min({j \in 1..Len(raw) : raw[j][1] = ranks_needed[k]})][3]
        ELSE NA]

\* C10: filter_lineage maps every raw walked lineage to exactly 7 entries in
\* canonical rank order, entry k being the name of the first raw element of
\* the k-th canonical rank or the unknown marker.
C10_ProjectionIsFirstMatch ==
    (pc = "mrca" /\ idx = 0) =>
        \A t \in DOMAIN species_lineages_dict :
            filter_species_lineage_dict[t] =
                FirstMatch(species_lineages_dict[t])

-----------------------------------------------------------------------------
(* Ancestor walk: C11 *)

\* the parents of t lead, in at most n steps and through ids that nodes.dmp
\* and names.dmp both hold, to a taxon that is its own parent
RECURSIVE ReachesRoot(_, _)
ReachesRoot(t, n) ==
    /\ t \in DOMAIN id_key_rank_up_values_dict
    /\ \/ id_key_rank_up_values_dict[t][2] = t
       \/ /\ n > 0
          /\ t \in DOMAIN id_key_dict
          /\ ReachesRoot(id_key_rank_up_values_dict[t][2], n - 1)

\* the taxonomy is well formed from every tax id the walk starts at
WellFormedStarts ==
    \A i \in 1..Len(species_taxid_dict.keys) :
        LET v == TaxidValues(species_taxid_dict)[i]
        IN  v = "NA" \/
            ReachesRoot(v, Cardinality(DOMAIN id_key_rank_up_values_dict))

\* generate_lineage has returned or the run has aborted
WalkEnded == pc \in {"filter", "KeyError"}

\* C11: the ancestor walk of generate_lineage always ends: it returns when
\* every start taxon leads to the self-parenting root, and it ends in a hard
\* failure, never in an endless loop, when the parents form a cycle or name a
\* missing identifier.
C11_WalkAlwaysEnds ==
    /\ <>WalkEnded
    /\ [](pc = "filter" => WellFormedStarts)
    /\ [](pc = "KeyError" => ~WellFormedStarts)

\* the part of C11 the walk does satisfy: it ends whenever no start taxon
\* leads into a parent cycle
WalkEndsOffCycles ==
    /\ (pc = "lineage" /\
        (\A i \in 1..Len(species_taxid_dict.keys) :
            LET v == TaxidValues(species_taxid_dict)[i]
            IN  v = "NA" \/ Walk(v, <<>>, {}, id_key_rank_up_values_dict,
                                 id_key_dict).status # "loop"))
          ~> WalkEnded
    /\ [](pc = "filter" => WellFormedStarts)
    /\ [](pc = "KeyError" => ~WellFormedStarts)

\* a walk that is back at the taxon it started from
WalkIsBackAtStart ==
    /\ pc = "lineage"
    /\ walk_item # ""
    /\ walk_item = TaxidValues(species_taxid_dict)[walked + 1]
    /\ Lookup(species_lineages_dict, walk_item) # <<>>

====
